---------------------------- MODULE Spec2Model ----------------------------
(***************************************************************************)
(* Model of lbgpsdo.py, the configuration utility for the Leo Bodnar       *)
(* GPSDO: the configuration object (class GPSDO: __init__, update,         *)
(* freqplan) and the decoding of the device's configuration report (class  *)
(* GPSDODevice: read_config).                                              *)
(*                                                                         *)
(* Python values are modelled as follows.                                  *)
(*  - An attribute or keyword argument that may be None is a sequence of   *)
(*    length at most one: None is << >>, the value v is <<v>>.             *)
(*  - Python's bool is a subclass of int (True == 1, False == 0), so a     *)
(*    boolean is the integer 1 or 0 and bool(v) is PyBool(v).              *)
(*  - Supplied numbers are Python ints (the isinstance(value, int) branch  *)
(*    of update, line 204, is never taken).                                *)
(*  - An error message is a string naming its kind; the texts the code     *)
(*    formats the parameter's name and value into are not modelled.        *)
(***************************************************************************)
EXTENDS Integers, Sequences, FiniteSets, TLC

VARIABLES
    m,        \* the GPSDO object's twelve attributes
    dev,      \* the configuration report the device returns (bytes 0..20)
    op,       \* the last method called ("init" before the first call)
    args,     \* the arguments of the last call
    pre,      \* the attributes before the last call
    ok,       \* the last call returned (TRUE) or raised (FALSE)
    errdict,  \* the error dictionary the last call built
    errflag,  \* freqplan's third result
    freq,     \* freqplan's first result
    config,   \* the dictionary read_config or asdict returned, or write read
    calls,    \* the number of calls made
    reads,    \* the configuration reports the last call requested
    sent,     \* the feature reports the last call sent, in order
    exc,      \* the exception the last call raised ("" when it returned)
    devcalls  \* the device calls the last call made, in order, a raising one last

vars == <<m, dev, op, args, pre, ok, errdict, errflag, freq, config, calls,
          reads, sent, exc, devcalls>>

-----------------------------------------------------------------------------
(* Python values *)

None == << >>

Some(v) == <<v>>

Val(x) == x[1]

PyBool(v) == IF v # 0 THEN 1 ELSE 0

EmptyDict == << >>

-----------------------------------------------------------------------------
(* class GPSDO: constants and tables *)

OUTPUT1 == 1

OUTPUT2 == 2

LIMIT_FIN_MIN == 10000

LIMIT_FIN_MAX == 16000000

LIMIT_F3_MIN == 10000

LIMIT_F3_MAX == 2000000

\* 4850000000 and 5670000000 exceed 32 bits: see BigDec below.
LIMIT_FOSC_MIN == <<4, 8, 5, 0, 0, 0, 0, 0, 0, 0>>

LIMIT_FOSC_MAX == <<5, 6, 7, 0, 0, 0, 0, 0, 0, 0>>

LIMIT_FOUT_MIN == 450

LIMIT_FOUT_MAX == 808000000

\* One row of _CONFIG_CHECKS per static attribute, in the code's order:
\* attribute, minimum, maximum, parity code (0 none, 2 even, 1 "1 or even").
CONFIG_CHECKS ==
    << [attr |-> "fin",    vmin |-> LIMIT_FIN_MIN, vmax |-> LIMIT_FIN_MAX, even |-> 0],
       [attr |-> "n3",     vmin |-> 1,             vmax |-> 2^19,          even |-> 0],
       [attr |-> "n2_hs",  vmin |-> 4,             vmax |-> 11,            even |-> 0],
       [attr |-> "n2_ls",  vmin |-> 2,             vmax |-> 2^20,          even |-> 2],
       [attr |-> "n1_hs",  vmin |-> 4,             vmax |-> 11,            even |-> 0],
       [attr |-> "nc1_ls", vmin |-> 2,             vmax |-> 2^20,          even |-> 1],
       [attr |-> "nc2_ls", vmin |-> 2,             vmax |-> 2^20,          even |-> 1],
       [attr |-> "skew",   vmin |-> 0,             vmax |-> 255,           even |-> 0],
       [attr |-> "bw",     vmin |-> 0,             vmax |-> 15,            even |-> 0] >>

StaticAttrs == {CONFIG_CHECKS[i].attr : i \in DOMAIN CONFIG_CHECKS}

Fields == {"out1", "out2", "level"} \cup StaticAttrs

CheckOf(attr) == CONFIG_CHECKS[CHOOSE i \in DOMAIN CONFIG_CHECKS : CONFIG_CHECKS[i].attr = attr]

\* GPSDO.__init__
InitModel ==
    [f \in Fields |->
        CASE f \in {"out1", "out2"} -> Some(0)
          [] f \in {"level", "skew"} -> Some(0)
          [] f = "bw"                -> Some(15)
          [] OTHER                   -> None]

-----------------------------------------------------------------------------
(* GPSDO.update *)

\* kwargs.pop(attr, None): an absent keyword and a keyword given as None are
\* the same to update.
Arg(kwargs, attr) == IF attr \in DOMAIN kwargs THEN kwargs[attr] ELSE None

MutRangeOnlyCheck(c, value) ==
    IF value < c.vmin \/ value > c.vmax THEN Some("must be in range") ELSE None

MutNoCheck(c, value) == None

\* The body of update's first loop for one supplied integer: the message left
\* in errdict[attr], or None.  The range message is written first and the
\* parity branch overwrites it.
MutConfigCheckNoLower(c, value) ==
    LET range == value > c.vmax
        odd   == c.even # 0 /\ value % 2 # 0
    IN  IF odd THEN IF c.even = 1 /\ value # 1 THEN Some("must be 1 or even") ELSE Some("must be even")
        ELSE IF range THEN Some("must be in range") ELSE None

ConfigCheck(c, value) ==
    LET range == value < c.vmin \/ value > c.vmax
        odd   == c.even # 0 /\ value % 2 # 0
    IN  IF odd
        THEN IF c.even = 1 /\ value # 1
             THEN Some("must be 1 or even")
             ELSE Some("must be even")
        ELSE IF range THEN Some("must be in range") ELSE None

LevelCheck(level) == level # None /\ (Val(level) < 0 \/ Val(level) > 3)

\* errdict as update has built it when it tests "if errdict".
UpdateErrdict(kwargs) ==
    LET bad  == {a \in StaticAttrs :
                    /\ Arg(kwargs, a) # None
                    /\ ConfigCheck(CheckOf(a), Val(Arg(kwargs, a))) # None}
        keys == bad \cup (IF LevelCheck(Arg(kwargs, "level")) THEN {"level"} ELSE {})
    IN  [f \in keys |->
            IF f = "level"
            THEN "Invalid drive level."
            ELSE Val(ConfigCheck(CheckOf(f), Val(kwargs[f])))]

MutStoreNone(self, kwargs) ==
    [f \in Fields |->
        IF f \notin DOMAIN kwargs THEN self[f]
        ELSE IF kwargs[f] = None THEN None
        ELSE IF f \in {"out1", "out2"} THEN Some(PyBool(Val(kwargs[f])))
        ELSE kwargs[f]]

\* The attributes after update's second loop and its three trailing ifs.
UpdateFields(self, kwargs) ==
    [f \in Fields |->
        IF Arg(kwargs, f) = None THEN self[f]
        ELSE IF f \in {"out1", "out2"} THEN Some(PyBool(Val(kwargs[f])))
        ELSE kwargs[f]]

NoArgs == [kwargs |-> EmptyDict, update |-> FALSE, modify |-> FALSE,
           ignore_freq_limits |-> FALSE, overwrite |-> FALSE, fail |-> "none"]

-----------------------------------------------------------------------------
(* Python's unbounded int, for the values that exceed 32 bits: a natural   *)
(* number is the sequence of its base-100 digits, least significant first, *)
(* without leading zeros (0 is the empty sequence), so that equal numbers  *)
(* are equal sequences.  "Small" operands are below 2^24.                  *)

RECURSIVE BigOf(_)
BigOf(n) == IF n = 0 THEN << >> ELSE <<n % 100>> \o BigOf(n \div 100)

RECURSIVE BigToInt(_)
BigToInt(a) == IF a = << >> THEN 0 ELSE a[1] + 100 * BigToInt(Tail(a))

RECURSIVE BigAddC(_, _, _)
BigAddC(a, b, carry) ==
    IF a = << >> /\ b = << >>
    THEN IF carry = 0 THEN << >> ELSE <<carry>>
    ELSE LET x == (IF a = << >> THEN 0 ELSE a[1]) + (IF b = << >> THEN 0 ELSE b[1]) + carry
         IN  <<x % 100>> \o BigAddC(IF a = << >> THEN a ELSE Tail(a),
                                     IF b = << >> THEN b ELSE Tail(b), x \div 100)

BigAdd(a, b) == BigAddC(a, b, 0)

RECURSIVE BigMulSmallC(_, _, _)
BigMulSmallC(a, k, carry) ==
    IF a = << >> THEN BigOf(carry)
    ELSE LET x == a[1] * k + carry
         IN  <<x % 100>> \o BigMulSmallC(Tail(a), k, x \div 100)

BigMulSmall(a, k) == IF k = 0 THEN << >> ELSE BigMulSmallC(a, k, 0)

\* The number written in decimal, most significant digit first.
RECURSIVE BigDec(_)
BigDec(digits) ==
    IF digits = << >> THEN << >>
    ELSE LET n == Len(digits)
         IN  BigAdd(BigMulSmall(BigDec(SubSeq(digits, 1, n - 1)), 10), BigOf(digits[n]))

RECURSIVE BigMul(_, _)
BigMul(a, b) ==
    IF a = << >> \/ b = << >> THEN << >>
    ELSE LET rest == BigMul(Tail(a), b)
         IN  BigAdd(BigMulSmall(b, a[1]), IF rest = << >> THEN rest ELSE <<0>> \o rest)

\* a < b: the longer number is the larger; equal lengths compare from the
\* most significant digit.
RECURSIVE BigLessSameLen(_, _)
BigLessSameLen(a, b) ==
    IF a = << >> THEN FALSE
    ELSE LET n == Len(a)
         IN  IF a[n] # b[n] THEN a[n] < b[n]
             ELSE BigLessSameLen(SubSeq(a, 1, n - 1), SubSeq(b, 1, n - 1))

BigLess(a, b) ==
    IF Len(a) # Len(b) THEN Len(a) < Len(b) ELSE BigLessSameLen(a, b)

\* a mod k for a small k > 0.
RECURSIVE BigModSmall(_, _)
BigModSmall(a, k) ==
    IF a = << >> THEN 0 ELSE (BigModSmall(Tail(a), k) * 100 + a[1]) % k

RECURSIVE BigStrip(_)
BigStrip(a) ==
    IF a = << >> THEN a
    ELSE IF a[Len(a)] = 0 THEN BigStrip(SubSeq(a, 1, Len(a) - 1)) ELSE a

\* a div k for a small k > 0: long division from the most significant digit;
\* the result pairs the quotient's digits with the running remainder.
RECURSIVE BigDivSmallR(_, _)
BigDivSmallR(a, k) ==
    IF a = << >> THEN [q |-> << >>, r |-> 0]
    ELSE LET hi == BigDivSmallR(Tail(a), k)
             x  == hi.r * 100 + a[1]
         IN  [q |-> <<x \div k>> \o hi.q, r |-> x % k]

BigDivSmall(a, k) == BigStrip(BigDivSmallR(a, k).q)

RECURSIVE GCD(_, _)
GCD(a, b) == IF b = 0 THEN a ELSE GCD(b, a % b)

\* math.gcd(a, k) for a small k > 0.
BigGcdSmall(a, k) == GCD(k, BigModSmall(a, k))

-----------------------------------------------------------------------------
(* fractions.Fraction for non-negative values: numerator and denominator   *)
(* in lowest terms, each an unbounded int.  The int operand of an          *)
(* operation is small, so each gcd is one of an unbounded and a small int. *)

\* Fraction(n, d) of two small ints, d > 0.
Fraction(n, d) ==
    LET g == GCD(n, d) IN [num |-> BigOf(n \div g), den |-> BigOf(d \div g)]

\* Fraction * int
FracMulInt(f, k) ==
    IF k = 0 \/ f.num = << >> THEN Fraction(0, 1)
    ELSE LET g == BigGcdSmall(f.den, k)
         IN  [num |-> BigMulSmall(f.num, k \div g), den |-> BigDivSmall(f.den, g)]

\* Fraction / int, for k > 0
FracDivInt(f, k) ==
    IF f.num = << >> THEN Fraction(0, 1)
    ELSE LET g == BigGcdSmall(f.num, k)
         IN  [num |-> BigDivSmall(f.num, g), den |-> BigMulSmall(f.den, k \div g)]

\* int / Fraction, for a Fraction > 0
IntDivFrac(k, f) ==
    IF k = 0 THEN Fraction(0, 1)
    ELSE LET g == BigGcdSmall(f.num, k)
         IN  [num |-> BigMulSmall(f.den, k \div g), den |-> BigDivSmall(f.num, g)]

\* Fraction < int and Fraction > int, the int unbounded
FracLess(f, n) == BigLess(f.num, BigMul(n, f.den))

FracGreater(f, n) == BigLess(BigMul(n, f.den), f.num)

-----------------------------------------------------------------------------
(* GPSDO.freqplan *)

\* One row of _FREQ_CHECKS per checked frequency, in the code's order.
FREQ_CHECKS ==
    << [attr |-> "f3",    lmin |-> BigOf(LIMIT_F3_MIN),     lmax |-> BigOf(LIMIT_F3_MAX)],
       [attr |-> "fosc",  lmin |-> BigDec(LIMIT_FOSC_MIN),  lmax |-> BigDec(LIMIT_FOSC_MAX)],
       [attr |-> "fout1", lmin |-> BigOf(LIMIT_FOUT_MIN),   lmax |-> BigOf(LIMIT_FOUT_MAX)],
       [attr |-> "fout2", lmin |-> BigOf(LIMIT_FOUT_MIN),   lmax |-> BigOf(LIMIT_FOUT_MAX)] >>

FreqAttrs == {FREQ_CHECKS[i].attr : i \in DOMAIN FREQ_CHECKS}

FreqCheckOf(attr) == FREQ_CHECKS[CHOOSE i \in DOMAIN FREQ_CHECKS : FREQ_CHECKS[i].attr = attr]

PlanKeys == {"f3", "fosc", "fout1", "fout2", "phaseres", "phase", "phaseangle",
             "phaseangleres"}

NoPlan == [k \in PlanKeys |-> None]

\* The "if modify" block filling every undefined divider with 5670.
MutSetDefaultsAlways(self) ==
    [self EXCEPT !.nc1_ls = IF self.nc1_ls = None THEN Some(5670) ELSE self.nc1_ls,
                 !.nc2_ls = IF self.nc2_ls = None THEN Some(5670) ELSE self.nc2_ls]

\* The "if modify" block: three assignments in sequence.
SetDefaults(self) ==
    LET s1 == IF Val(self.out1) = 0 /\ self.nc1_ls = None /\ Val(self.out2) # 0
              THEN [self EXCEPT !.nc1_ls = self.nc2_ls] ELSE self
        s2 == IF Val(s1.out2) = 0 /\ s1.nc2_ls = None /\ Val(s1.out1) # 0
              THEN [s1 EXCEPT !.nc2_ls = s1.nc1_ls] ELSE s1
    IN  IF Val(s2.out1) = 0 /\ Val(s2.out2) = 0
        THEN [s2 EXCEPT !.nc1_ls = IF s2.nc1_ls = None THEN Some(5670) ELSE s2.nc1_ls,
                        !.nc2_ls = IF s2.nc2_ls = None THEN Some(5670) ELSE s2.nc2_ls]
        ELSE s2

MutPlanFoscNoN2ls(self) ==
    LET f3 == IF self.fin = None \/ self.n3 = None THEN None
              ELSE Some(Fraction(Val(self.fin), Val(self.n3)))
    IN  IF f3 = None \/ self.n2_hs = None \/ self.n2_ls = None THEN None
        ELSE Some(FracMulInt(Val(f3), Val(self.n2_hs)))

PlanF3(self) ==
    IF self.fin = None \/ self.n3 = None THEN None
    ELSE Some(Fraction(Val(self.fin), Val(self.n3)))

PlanFosc(self) ==
    LET f3 == PlanF3(self)
    IN  IF f3 = None \/ self.n2_hs = None \/ self.n2_ls = None THEN None
        ELSE Some(FracMulInt(FracMulInt(Val(f3), Val(self.n2_hs)), Val(self.n2_ls)))

MutPhaseangleNoWrap(self) ==
    IF self.nc2_ls = None \/ self.skew = None THEN None
    ELSE Some([num |-> BigOf(Val(self.skew)), den |-> BigOf(Val(self.nc2_ls))])

PlanPhaseangle(self) ==
    IF self.nc2_ls = None \/ self.skew = None THEN None
    ELSE Some(Fraction(Val(self.skew) % Val(self.nc2_ls), Val(self.nc2_ls)))

\* The eight assignments of "Compute frequency plan" and the freq dictionary.
Plan(self) ==
    LET f3   == PlanF3(self)
        fosc == PlanFosc(self)
    IN  [k \in PlanKeys |->
          CASE k = "f3"    -> f3
            [] k = "fosc"  -> fosc
            [] k = "fout1" ->
                 IF fosc = None \/ self.n1_hs = None \/ self.nc1_ls = None THEN None
                 ELSE Some(FracDivInt(Val(fosc), Val(self.n1_hs) * Val(self.nc1_ls)))
            [] k = "fout2" ->
                 IF fosc = None \/ self.n1_hs = None \/ self.nc2_ls = None THEN None
                 ELSE Some(FracDivInt(Val(fosc), Val(self.n1_hs) * Val(self.nc2_ls)))
            [] k = "phase" ->
                 IF fosc = None \/ self.n1_hs = None \/ self.skew = None THEN None
                 ELSE Some(IntDivFrac(Val(self.skew) * Val(self.n1_hs), Val(fosc)))
            [] k = "phaseres" ->
                 IF fosc = None \/ self.n1_hs = None THEN None
                 ELSE Some(IntDivFrac(Val(self.n1_hs), Val(fosc)))
            [] k = "phaseangle" -> PlanPhaseangle(self)
            [] k = "phaseangleres" ->
                 IF self.nc2_ls = None THEN None
                 ELSE Some(Fraction(1, Val(self.nc2_ls)))]

MutFreqCheckStrict(c, value, ignore_freq_limits) ==
    IF value = None THEN Some("undefined")
    ELSE IF ignore_freq_limits THEN None
    ELSE IF ~FracGreater(Val(value), c.lmin) \/ ~FracLess(Val(value), c.lmax)
         THEN Some("out of range")
    ELSE None

MutFreqCheckIgnoreFirst(c, value, ignore_freq_limits) ==
    IF ignore_freq_limits THEN None
    ELSE IF value = None THEN Some("undefined")
    ELSE IF FracLess(Val(value), c.lmin) \/ FracGreater(Val(value), c.lmax)
         THEN Some("out of range")
    ELSE None

MutFreqCheckNoIgnore(c, value, ignore_freq_limits) ==
    IF value = None THEN Some("undefined")
    ELSE IF FracLess(Val(value), c.lmin) \/ FracGreater(Val(value), c.lmax)
         THEN Some("out of range")
    ELSE None

\* The body of the "Check allowed frequency ranges" loop.
FreqCheck(c, value, ignore_freq_limits) ==
    IF value = None THEN Some("undefined")
    ELSE IF ignore_freq_limits THEN None
    ELSE IF FracLess(Val(value), c.lmin) \/ FracGreater(Val(value), c.lmax)
         THEN Some("out of range")
    ELSE None

MutSkewCheckCeilingMinus1(self) ==
    IF self.skew # None /\ self.nc2_ls # None
    THEN LET a       == Val(self.nc2_ls) - 1
             skewmax == IF a > 0 THEN a ELSE 0
         IN  IF Val(self.skew) > skewmax THEN Some("SKEW out of range") ELSE None
    ELSE None

\* "Check skew": the message that replaces errdict['skew'], or None.
SkewCheck(self) ==
    IF self.skew # None /\ self.nc2_ls # None
    THEN LET a       == Val(self.nc2_ls) - 2
             skewmax == IF a > 0 THEN a ELSE 0
         IN  IF Val(self.skew) > skewmax THEN Some("SKEW out of range") ELSE None
    ELSE None

\* errdict as freqplan returns it: an entry for each static attribute and
\* each checked frequency.  'skew' is always a key after the first loop, so
\* the trailing "if 'skew' not in errdict" never assigns.
PlanErrdict(self, plan, ignore_freq_limits) ==
    [k \in StaticAttrs \cup FreqAttrs |->
        IF k \in FreqAttrs THEN FreqCheck(FreqCheckOf(k), plan[k], ignore_freq_limits)
        ELSE IF k = "skew" /\ SkewCheck(self) # None THEN SkewCheck(self)
        ELSE IF self[k] = None THEN Some("undefined") ELSE None]

MutErrFlagStaticOnly(errs) == \E k \in DOMAIN errs \cap StaticAttrs : errs[k] # None

\* any([ v is not None for v in errdict.values() ])
ErrFlag(errs) == \E k \in DOMAIN errs : errs[k] # None

\* A division of lines 343-350 has a zero divisor, and Python raises
\* ZeroDivisionError: Fraction(fin, 0), fosc / (n1_hs * 0), n1_hs / fosc
\* with fosc = 0, skew % 0, Fraction(1, 0).
DividesByZero(self) ==
    LET f3def   == self.fin # None /\ self.n3 # None
        foscdef == f3def /\ self.n2_hs # None /\ self.n2_ls # None
    IN  \/ f3def /\ Val(self.n3) = 0
        \/ foscdef /\ self.n1_hs # None /\ self.nc1_ls # None
              /\ (Val(self.n1_hs) = 0 \/ Val(self.nc1_ls) = 0)
        \/ foscdef /\ self.n1_hs # None /\ self.nc2_ls # None
              /\ (Val(self.n1_hs) = 0 \/ Val(self.nc2_ls) = 0)
        \/ foscdef /\ self.n1_hs # None
              /\ (Val(self.fin) = 0 \/ Val(self.n2_hs) = 0 \/ Val(self.n2_ls) = 0)
        \/ self.nc2_ls # None /\ Val(self.nc2_ls) = 0

-----------------------------------------------------------------------------
(* GPSDODevice.read_config *)

\* buf[i] of the Python bytes object (indices from 0).
Byte(buf, i) == buf[i + 1]

\* struct.unpack("<I", buf[i:i+3] + bytes([0]))[0]
UnpackLE24(buf, i) == Byte(buf, i) + 256 * Byte(buf, i + 1) + 65536 * Byte(buf, i + 2)

\* buf[0] & mask, for a one-bit mask
BitAnd(byte, mask) == ((byte \div mask) % 2) * mask

\* The result dictionary read_config decodes from the report.
DecodeConfig(buf) ==
    [f \in Fields |->
        CASE f = "out1"   -> Some(PyBool(BitAnd(Byte(buf, 0), OUTPUT1)))
          [] f = "out2"   -> Some(PyBool(BitAnd(Byte(buf, 0), OUTPUT2)))
          [] f = "level"  -> Some(Byte(buf, 1))
          [] f = "fin"    -> Some(UnpackLE24(buf, 2))
          [] f = "n3"     -> Some(UnpackLE24(buf, 5) + 1)
          [] f = "n2_hs"  -> Some(Byte(buf, 8) + 4)
          [] f = "n2_ls"  -> Some(UnpackLE24(buf, 9) + 1)
          [] f = "n1_hs"  -> Some(Byte(buf, 12) + 4)
          [] f = "nc1_ls" -> Some(UnpackLE24(buf, 13) + 1)
          [] f = "nc2_ls" -> Some(UnpackLE24(buf, 16) + 1)
          [] f = "skew"   -> Some(Byte(buf, 19))
          [] f = "bw"     -> Some(Byte(buf, 20))]

NoConfig == << >>

-----------------------------------------------------------------------------
(* GPSDODevice.write: the feature reports *)

COMMAND_OUTPUT == 1

COMMAND_LEVEL == 3

COMMAND_PLL == 4

\* The dictionary a GPSDOConfigurationException carries after freqplan:
\* { a: v for a, v in errdict.items() if v is not None }
RaisedDict(errs) ==
    [a \in {k \in DOMAIN errs : errs[k] # None} |-> Val(errs[a])]

\* struct.pack("<B", v)[0:1], None when struct.error is raised.
PackB(v) == IF v < 0 \/ v > 255 THEN None ELSE Some(<<v>>)

\* struct.pack("<I", v)[0:3]: the low three bytes of the four packed;
\* None when struct.error is raised (v < 0; the values of this model stay
\* below the format's upper limit 2^32).
PackI3(v) ==
    IF v < 0 THEN None
    ELSE Some(<<v % 256, (v \div 256) % 256, (v \div 65536) % 256>>)

\* n * [ 0 ]
Zeros(n) == [i \in 1..n |-> 0]

MutEncodePLLNoOffset(self) ==
    LET parts == << PackI3(Val(self.fin)),
                    PackI3(Val(self.n3)),
                    PackB(Val(self.n2_hs) - 4),
                    PackI3(Val(self.n2_ls) - 1),
                    PackB(Val(self.n1_hs) - 4),
                    PackI3(Val(self.nc1_ls) - 1),
                    PackI3(Val(self.nc2_ls) - 1),
                    PackB(Val(self.skew)),
                    PackB(Val(self.bw)) >>
    IN  IF \E i \in 1..9 : parts[i] = None THEN None
        ELSE Some(<<COMMAND_PLL>> \o Val(parts[1]) \o Val(parts[2]) \o Val(parts[3])
                  \o Val(parts[4]) \o Val(parts[5]) \o Val(parts[6]) \o Val(parts[7])
                  \o Val(parts[8]) \o Val(parts[9]) \o Zeros(40))

\* The PLL report of lines 907-917, None when a pack raises.
EncodePLL(self) ==
    LET parts == << PackI3(Val(self.fin)),
                    PackI3(Val(self.n3) - 1),
                    PackB(Val(self.n2_hs) - 4),
                    PackI3(Val(self.n2_ls) - 1),
                    PackB(Val(self.n1_hs) - 4),
                    PackI3(Val(self.nc1_ls) - 1),
                    PackI3(Val(self.nc2_ls) - 1),
                    PackB(Val(self.skew)),
                    PackB(Val(self.bw)) >>
    IN  IF \E i \in 1..9 : parts[i] = None THEN None
        ELSE Some(<<COMMAND_PLL>> \o Val(parts[1]) \o Val(parts[2]) \o Val(parts[3])
                  \o Val(parts[4]) \o Val(parts[5]) \o Val(parts[6]) \o Val(parts[7])
                  \o Val(parts[8]) \o Val(parts[9]) \o Zeros(40))

\* The LEVEL report of lines 923-925; bytes(buf) raises ValueError for a
\* level outside 0..255 (None).
EncodeLevel(self) ==
    IF Val(self.level) < 0 \/ Val(self.level) > 255 THEN None
    ELSE Some(<<COMMAND_LEVEL, Val(self.level)>> \o Zeros(58))

MutEncodeOutputSwapped(self) ==
    Some(<<COMMAND_OUTPUT,
           (IF Val(self.out1) # 0 THEN OUTPUT2 ELSE 0)
             + (IF Val(self.out2) # 0 THEN OUTPUT1 ELSE 0)>> \o Zeros(58))

\* The OUTPUT report of lines 932-935.
EncodeOutput(self) ==
    Some(<<COMMAND_OUTPUT,
           (IF Val(self.out1) # 0 THEN OUTPUT1 ELSE 0)
             + (IF Val(self.out2) # 0 THEN OUTPUT2 ELSE 0)>> \o Zeros(58))

MutPllDiffersNoBw(self, configdict) ==
    \E f \in StaticAttrs \ {"bw"} : self[f] # configdict[f]

MutLevelDiffersAlways(self, configdict) == TRUE

\* The conditions of lines 897-906, 921-922 and 929-931 without overwrite.
PllDiffers(self, configdict) == \E f \in StaticAttrs : self[f] # configdict[f]

LevelDiffers(self, configdict) == self.level # configdict.level

OutputDiffers(self, configdict) ==
    self.out1 # configdict.out1 \/ self.out2 # configdict.out2

\* The three blocks in the order write handles them.
Blocks == <<"pll", "level", "output">>

\* The report of block b, None when building it raises.
EncodeBlock(self, b) ==
    CASE b = "pll"    -> EncodePLL(self)
      [] b = "level"  -> EncodeLevel(self)
      [] b = "output" -> EncodeOutput(self)

\* Whether write builds block b.
BlockNeeded(self, configdict, overwrite, b) ==
    overwrite \/ (CASE b = "pll"    -> PllDiffers(self, configdict)
                    [] b = "level"  -> LevelDiffers(self, configdict)
                    [] b = "output" -> OutputDiffers(self, configdict))

\* What becomes of block b when write gets to it: "skip" (not needed),
\* "encerr" (building the report raises), "hiderr" (send_feature_report
\* raises) or "sent".
BlockStep(self, configdict, overwrite, fail, b) ==
    IF ~BlockNeeded(self, configdict, overwrite, b) THEN "skip"
    ELSE IF EncodeBlock(self, b) = None THEN "encerr"
    ELSE IF fail = b THEN "hiderr"
    ELSE "sent"

\* The index in Blocks of the first block that raises, 4 if none does.
FirstRaise(self, configdict, overwrite, fail) ==
    LET bad == {i \in 1..3 :
                  BlockStep(self, configdict, overwrite, fail, Blocks[i])
                      \in {"encerr", "hiderr"}}
    IN  IF bad = {} THEN 4 ELSE CHOOSE i \in bad : \A j \in bad : i <= j

MutSentReportsContinue(self, configdict, overwrite, fail) ==
    LET idx == SelectSeq(<<1, 2, 3>>,
                    LAMBDA i : BlockStep(self, configdict, overwrite, fail, Blocks[i]) = "sent")
    IN  [k \in 1..Len(idx) |-> Val(EncodeBlock(self, Blocks[idx[k]]))]

\* The reports write sends, in order: those of the needed blocks before
\* the first that raises.
SentReports(self, configdict, overwrite, fail) ==
    LET stop == FirstRaise(self, configdict, overwrite, fail)
        idx  == SelectSeq(<<1, 2, 3>>,
                    LAMBDA i : i < stop
                       /\ BlockStep(self, configdict, overwrite, fail, Blocks[i]) = "sent")
    IN  [k \in 1..Len(idx) |-> Val(EncodeBlock(self, Blocks[idx[k]]))]

\* The blocks write calls send_feature_report for, in order: the needed
\* blocks whose report is built, up to and including one whose send raises.
SendCalls(self, configdict, overwrite, fail) ==
    LET stop == FirstRaise(self, configdict, overwrite, fail)
        idx  == SelectSeq(<<1, 2, 3>>,
                    LAMBDA i : i <= stop
                       /\ BlockStep(self, configdict, overwrite, fail, Blocks[i])
                             \in {"sent", "hiderr"})
    IN  [k \in 1..Len(idx) |-> Blocks[idx[k]]]

\* The exception that ends the sending, "" if none.
SendException(self, configdict, overwrite, fail) ==
    LET stop == FirstRaise(self, configdict, overwrite, fail)
    IN  IF stop = 4 THEN ""
        ELSE IF BlockStep(self, configdict, overwrite, fail, Blocks[stop]) = "hiderr"
             THEN "HIDException"
        ELSE IF Blocks[stop] = "pll" THEN "struct.error"
        ELSE "ValueError"

-----------------------------------------------------------------------------
(* The device behind hid.Device: it keeps every report it receives and    *)
(* returns what it keeps in the layout read_config decodes (byte 0 the    *)
(* output flags, byte 1 the level, bytes 2..20 the PLL report's 1..19).   *)

Store(image, buf) ==
    [i \in 1..21 |->
        IF buf[1] = COMMAND_PLL /\ i >= 3 THEN buf[i - 1]
        ELSE IF buf[1] = COMMAND_LEVEL /\ i = 2 THEN buf[2]
        ELSE IF buf[1] = COMMAND_OUTPUT /\ i = 1 THEN buf[2]
        ELSE image[i]]

RECURSIVE StoreAll(_, _)
StoreAll(image, bufs) ==
    IF bufs = << >> THEN image
    ELSE StoreAll(Store(image, Head(bufs)), Tail(bufs))

-----------------------------------------------------------------------------
(* The calls, each one whole method *)

\* update as it would be with the assignments made while validating: the
\* accepted attributes are stored before the exception is raised.
MutUpdateEager(kwargs) ==
    LET errs == UpdateErrdict(kwargs)
    IN  /\ m' = UpdateFields(m, [f \in DOMAIN kwargs \ DOMAIN errs |-> kwargs[f]])
        /\ ok' = (DOMAIN errs = {})
        /\ errdict' = errs
        /\ op' = "update"
        /\ args' = [NoArgs EXCEPT !.kwargs = kwargs]
        /\ pre' = m
        /\ errflag' = FALSE
        /\ freq' = NoPlan
        /\ config' = NoConfig
        /\ calls' = calls + 1
        /\ reads' = 0
        /\ sent' = << >>
        /\ devcalls' = << >>
        /\ exc' = IF DOMAIN errs = {} THEN "" ELSE "GPSDOConfigurationException"
        /\ UNCHANGED dev

\* GPSDO.update(**kwargs): validate all, raise with the whole errdict or
\* assign the supplied attributes.
Update(kwargs) ==
    LET errs == UpdateErrdict(kwargs)
    IN  /\ m' = IF DOMAIN errs # {} THEN m ELSE UpdateFields(m, kwargs)
        /\ ok' = (DOMAIN errs = {})
        /\ errdict' = errs
        /\ op' = "update"
        /\ args' = [NoArgs EXCEPT !.kwargs = kwargs]
        /\ pre' = m
        /\ errflag' = FALSE
        /\ freq' = NoPlan
        /\ config' = NoConfig
        /\ calls' = calls + 1
        /\ reads' = 0
        /\ sent' = << >>
        /\ devcalls' = << >>
        /\ exc' = IF DOMAIN errs = {} THEN "" ELSE "GPSDOConfigurationException"
        /\ UNCHANGED dev

\* GPSDODevice.read_config(update): decode the report and, with update,
\* pass the decoded dictionary to self.update, whose exception propagates.
ReadConfig(update) ==
    LET result == DecodeConfig(dev)
        errs   == IF update THEN UpdateErrdict(result) ELSE EmptyDict
    IN  /\ m' = IF update /\ DOMAIN errs = {} THEN UpdateFields(m, result) ELSE m
        /\ ok' = (DOMAIN errs = {})
        /\ errdict' = errs
        /\ config' = IF DOMAIN errs = {} THEN result ELSE NoConfig
        /\ op' = "read_config"
        /\ args' = [NoArgs EXCEPT !.update = update]
        /\ pre' = m
        /\ errflag' = FALSE
        /\ freq' = NoPlan
        /\ calls' = calls + 1
        /\ reads' = 1
        /\ sent' = << >>
        /\ devcalls' = <<"get_feature_report">>
        /\ exc' = IF DOMAIN errs = {} THEN "" ELSE "GPSDOConfigurationException"
        /\ UNCHANGED dev

\* freqplan as it would be with the plan kept from the attributes as they
\* were before the previous call.
MutFreqPlanStale(modify, ignore_freq_limits) ==
    LET self == IF modify THEN SetDefaults(m) ELSE m
        plan == Plan(pre)
        errs == PlanErrdict(self, plan, ignore_freq_limits)
    IN  /\ m' = self
        /\ freq' = plan
        /\ errdict' = errs
        /\ errflag' = ErrFlag(errs)
        /\ ok' = TRUE
        /\ op' = "freqplan"
        /\ args' = [NoArgs EXCEPT !.modify = modify,
                                  !.ignore_freq_limits = ignore_freq_limits]
        /\ pre' = m
        /\ config' = NoConfig
        /\ calls' = calls + 1
        /\ reads' = 0
        /\ sent' = << >>
        /\ devcalls' = << >>
        /\ exc' = ""
        /\ UNCHANGED dev

\* GPSDO.freqplan(modify, ignore_freq_limits).  The defaults of modify are
\* assigned before the plan is computed and stay when a division raises.
FreqPlan(modify, ignore_freq_limits) ==
    LET self == IF modify THEN SetDefaults(m) ELSE m
        zero == DividesByZero(self)
        plan == IF zero THEN NoPlan ELSE Plan(self)
        errs == IF zero THEN EmptyDict ELSE PlanErrdict(self, plan, ignore_freq_limits)
    IN  /\ m' = self
        /\ freq' = plan
        /\ errdict' = errs
        /\ errflag' = (~zero /\ ErrFlag(errs))
        /\ ok' = ~zero
        /\ op' = "freqplan"
        /\ args' = [NoArgs EXCEPT !.modify = modify,
                                  !.ignore_freq_limits = ignore_freq_limits]
        /\ pre' = m
        /\ config' = NoConfig
        /\ calls' = calls + 1
        /\ reads' = 0
        /\ sent' = << >>
        /\ devcalls' = << >>
        /\ exc' = IF zero THEN "ZeroDivisionError" ELSE ""
        /\ UNCHANGED dev

\* asdict as it would be without 'level' in the dictionary.
MutAsDictNoLevel(ignore_freq_limits) ==
    LET plan == Plan(m)
        errs == PlanErrdict(m, plan, ignore_freq_limits)
        flag == ErrFlag(errs)
    IN  /\ freq' = plan
        /\ errflag' = flag
        /\ errdict' = IF flag THEN RaisedDict(errs) ELSE EmptyDict
        /\ ok' = ~flag
        /\ exc' = IF flag THEN "GPSDOConfigurationException" ELSE ""
        /\ config' = IF flag THEN NoConfig ELSE [f \in Fields \ {"level"} |-> m[f]]
        /\ op' = "asdict"
        /\ args' = [NoArgs EXCEPT !.ignore_freq_limits = ignore_freq_limits]
        /\ pre' = m
        /\ calls' = calls + 1
        /\ reads' = 0
        /\ sent' = << >>
        /\ devcalls' = << >>
        /\ UNCHANGED <<m, dev>>

\* GPSDO.asdict(ignore_freq_limits): raise with the messages of freqplan,
\* or return the twelve attributes.
AsDict(ignore_freq_limits) ==
    LET zero == DividesByZero(m)
        plan == IF zero THEN NoPlan ELSE Plan(m)
        errs == IF zero THEN EmptyDict ELSE PlanErrdict(m, plan, ignore_freq_limits)
        flag == ~zero /\ ErrFlag(errs)
    IN  /\ freq' = plan
        /\ errflag' = flag
        /\ errdict' = IF flag THEN RaisedDict(errs) ELSE EmptyDict
        /\ ok' = (~zero /\ ~flag)
        /\ exc' = IF zero THEN "ZeroDivisionError"
                  ELSE IF flag THEN "GPSDOConfigurationException" ELSE ""
        /\ config' = IF zero \/ flag THEN NoConfig ELSE m
        /\ op' = "asdict"
        /\ args' = [NoArgs EXCEPT !.ignore_freq_limits = ignore_freq_limits]
        /\ pre' = m
        /\ calls' = calls + 1
        /\ reads' = 0
        /\ sent' = << >>
        /\ devcalls' = << >>
        /\ UNCHANGED <<m, dev>>

\* GPSDODevice.write(overwrite, ignore_freq_limits).  fail names the device
\* call at which the transport raises, should write get to it: "status"
\* (device.read in read_status), "read" (get_feature_report in
\* read_config), the send of a block, or "none".
Write(overwrite, ignore_freq_limits, fail) ==
    LET zero       == DividesByZero(m)
        plan       == IF zero THEN NoPlan ELSE Plan(m)
        errs       == IF zero THEN EmptyDict ELSE PlanErrdict(m, plan, ignore_freq_limits)
        flag       == ~zero /\ ErrFlag(errs)
        stopped    == zero \/ flag
        configdict == DecodeConfig(dev)
        noread     == stopped \/ fail \in {"status", "read"}
        reports    == IF noread THEN << >>
                      ELSE SentReports(m, configdict, overwrite, fail)
        raised     == IF zero THEN "ZeroDivisionError"
                      ELSE IF flag THEN "GPSDOConfigurationException"
                      ELSE IF fail \in {"status", "read"} THEN "HIDException"
                      ELSE SendException(m, configdict, overwrite, fail)
    IN  /\ freq' = plan
        /\ errflag' = flag
        /\ errdict' = IF flag THEN RaisedDict(errs) ELSE EmptyDict
        /\ reads' = IF stopped \/ fail = "status" THEN 0 ELSE 1
        /\ config' = IF noread THEN NoConfig ELSE configdict
        /\ sent' = reports
        /\ devcalls' = IF stopped THEN << >>
                       ELSE IF fail = "status" THEN <<"read">>
                       ELSE IF fail = "read" THEN <<"read", "get_feature_report">>
                       ELSE <<"read", "get_feature_report">>
                                \o SendCalls(m, configdict, overwrite, fail)
        /\ dev' = StoreAll(dev, reports)
        /\ exc' = raised
        /\ ok' = (raised = "")
        /\ op' = "write"
        /\ args' = [NoArgs EXCEPT !.overwrite = overwrite,
                                  !.ignore_freq_limits = ignore_freq_limits,
                                  !.fail = fail]
        /\ pre' = m
        /\ calls' = calls + 1
        /\ UNCHANGED m

-----------------------------------------------------------------------------
(* Inputs *)

\* Every dictionary that gives each attribute of S one of the values vals[a].
RECURSIVE KwargsOver(_, _)
KwargsOver(S, vals) ==
    IF S = {} THEN {EmptyDict}
    ELSE LET a == CHOOSE x \in S : TRUE
         IN  {(a :> v) @@ k : v \in vals[a], k \in KwargsOver(S \ {a}, vals)}

\* Configuration reports a device may return: a valid configuration, the
\* all-zero report, a valid one with NC1_LS = 1, and one with level 7.
DevValid == <<3, 2, 128, 150, 152, 9, 0, 0, 1, 231, 3, 0, 6, 49, 0, 0, 49, 0, 0, 1, 10>>

DevZero == [i \in 1..21 |-> 0]

DevBypass == <<1, 2, 128, 150, 152, 9, 0, 0, 1, 231, 3, 0, 6, 0, 0, 0, 49, 0, 0, 0, 10>>

DevBadLevel == <<3, 7, 128, 150, 152, 9, 0, 0, 1, 231, 3, 0, 6, 49, 0, 0, 49, 0, 0, 1, 10>>

DevImages == {DevValid, DevZero, DevBypass, DevBadLevel}

\* A complete configuration that passes update (fosc = 5 GHz, fout = 10 MHz).
ConfigA ==
    [out1 |-> Some(1), out2 |-> Some(1), level |-> Some(1), fin |-> Some(10000000),
     n3 |-> Some(5), n2_hs |-> Some(10), n2_ls |-> Some(250), n1_hs |-> Some(5),
     nc1_ls |-> Some(100), nc2_ls |-> Some(100), skew |-> Some(3), bw |-> Some(7)]

\* The values the calls of a session supply per attribute: None, values the
\* tables accept and one they reject.
SessionValues ==
    [f \in Fields |->
        CASE f \in {"out1", "out2"} -> {None, Some(0), Some(1), Some(2)}
          [] f = "level"  -> {None, Some(3), Some(4)}
          [] f = "fin"    -> {None, Some(10000000), Some(10000), Some(9999)}
          [] f = "n3"     -> {None, Some(5), Some(0)}
          [] f = "n2_hs"  -> {None, Some(10), Some(12)}
          [] f = "n2_ls"  -> {None, Some(250), Some(1)}
          [] f = "n1_hs"  -> {None, Some(5), Some(3)}
          [] f = "nc1_ls" -> {None, Some(100), Some(1)}
          [] f = "nc2_ls" -> {None, Some(100), Some(3)}
          [] f = "skew"   -> {None, Some(3), Some(256)}
          [] f = "bw"     -> {None, Some(7), Some(16)}]

\* A session's update calls: one keyword, or a whole configuration (good,
\* with one bad attribute, or with some attributes given as None).
SessionKwargs ==
    UNION {KwargsOver({f}, SessionValues) : f \in Fields}
    \cup {ConfigA, [ConfigA EXCEPT !.n3 = Some(0)],
          [ConfigA EXCEPT !.fin = None, !.skew = None, !.n3 = Some(2)]}

\* The values around each table bound and parity case.
BoundaryValues ==
    [f \in Fields |->
        CASE f \in {"out1", "out2"} -> {None, Some(0), Some(1), Some(2)}
          [] f = "level"  -> {None, Some(-1), Some(0), Some(3), Some(4)}
          [] f = "fin"    -> {None, Some(9999), Some(10000), Some(16000000), Some(16000001)}
          [] f = "n3"     -> {None, Some(0), Some(1), Some(524288), Some(524289)}
          [] f \in {"n2_hs", "n1_hs"} -> {None, Some(3), Some(4), Some(11), Some(12)}
          [] f \in {"n2_ls", "nc1_ls", "nc2_ls"} ->
               {None, Some(0), Some(1), Some(2), Some(3), Some(1048575), Some(1048576),
                Some(1048577), Some(1048578)}
          [] f = "skew"   -> {None, Some(-1), Some(0), Some(255), Some(256)}
          [] f = "bw"     -> {None, Some(-1), Some(0), Some(15), Some(16)}]

MaxArgs == 2

MaxCalls == 3

BoundaryKwargs ==
    UNION {KwargsOver(S, BoundaryValues) : S \in {T \in SUBSET Fields : Cardinality(T) <= MaxArgs}}

\* The objects update is called on: fresh, and configured.
UpdateModels == {InitModel, ConfigA, [ConfigA EXCEPT !.nc1_ls = None, !.out1 = Some(0)]}

\* PLL settings <<fin, n3, n2_hs, n2_ls>> that put f3, fosc and the outputs
\* on, just inside and just outside the limits.
PllCases ==
    { <<10000000, 1, 4, 1024>>,  \* fosc = 40 960 000 000
      <<10000000, 5, 10, 250>>,  \* f3 = 2 MHz, fosc = 5 GHz
      <<10000, 1, 4, 2>>,        \* f3 = 10 kHz
      <<10000, 2, 4, 2>>,        \* f3 = 5 kHz
      <<10000, 5, 4, 2>>,        \* f3 = 2 kHz
      <<10000, 6, 4, 2>>,        \* f3 = 1666 2/3 Hz
      <<19999, 10, 4, 2>>,       \* f3 = 1999.9 Hz
      <<19999, 2, 4, 2>>,        \* f3 = 9999.5 Hz
      <<14000001, 7, 4, 2>>,     \* f3 = 2 MHz + 1/7 Hz
      <<10000000, 10, 5, 970>>,  \* fosc = 4.85 GHz
      <<10000000, 10, 5, 1134>>, \* fosc = 5.67 GHz
      <<6582519, 5, 6, 614>>,    \* fosc = 4.85 GHz - 4/5 Hz
      <<6721549, 9, 4, 1898>>,   \* fosc = 5.67 GHz + 8/9 Hz
      <<13147929, 1, 4, 338>>,   \* fout = 808 MHz + 4/11 Hz with N1_HS 11, NC 2
      <<460800, 1, 11, 1024>>,   \* fout = 450 Hz with N1_HS 11, NC 1048576
      <<460799, 1, 11, 1024>>,   \* fout just below 450 Hz
      <<10000000, 5, 4, 808>> }  \* fout = 808 MHz with N1_HS 4, NC 2

\* The objects freqplan is evaluated on.  They include attribute values only
\* an assignment that bypasses update produces (NC = 1, NC2_LS = 5).
PlanModels ==
    { [out1 |-> Some(1), out2 |-> Some(1), level |-> Some(0), fin |-> Some(p[1]),
       n3 |-> Some(p[2]), n2_hs |-> Some(p[3]), n2_ls |-> Some(p[4]),
       n1_hs |-> Some(n1), nc1_ls |-> Some(c1), nc2_ls |-> Some(c2),
       skew |-> Some(sk), bw |-> Some(15)] :
        p \in PllCases, n1 \in {4, 5, 11}, c1 \in {1, 2, 100, 1048576},
        c2 \in {1, 2, 5, 1048576}, sk \in {0, 3, 4, 7, 255} }

\* Objects with some attributes undefined: the fresh object, and ConfigA
\* with each set of static attributes None (skew and bw by assignment).
PartialModels ==
    {InitModel} \cup
    { [f \in Fields |-> IF f \in U THEN None ELSE ConfigA[f]] : U \in SUBSET StaticAttrs }

\* The configuration DevValid holds.
ConfigDev == DecodeConfig(DevValid)

\* The largest and the smallest value of every attribute.
ConfigMax ==
    [out1 |-> Some(1), out2 |-> Some(0), level |-> Some(3), fin |-> Some(16000000),
     n3 |-> Some(524288), n2_hs |-> Some(11), n2_ls |-> Some(1048576),
     n1_hs |-> Some(11), nc1_ls |-> Some(1048576), nc2_ls |-> Some(1048576),
     skew |-> Some(255), bw |-> Some(15)]

ConfigMin ==
    [out1 |-> Some(0), out2 |-> Some(0), level |-> Some(0), fin |-> Some(10000),
     n3 |-> Some(1), n2_hs |-> Some(4), n2_ls |-> Some(2), n1_hs |-> Some(4),
     nc1_ls |-> Some(2), nc2_ls |-> Some(2), skew |-> Some(0), bw |-> Some(0)]

\* Objects whose attributes were assigned without update, with values that
\* pass freqplan but do not fit the report: fin = 2^24 (f3 = 1048576,
\* fosc = 5 242 880 000), n2_hs = 260, skew = 256, level = 256.
AssignedModels ==
    { [ConfigA EXCEPT !.fin = Some(16777216), !.n3 = Some(16), !.n2_ls = Some(500)],
      [ConfigA EXCEPT !.n2_hs = Some(260)],
      [ConfigA EXCEPT !.skew = Some(256), !.nc2_ls = Some(1000)],
      [ConfigA EXCEPT !.level = Some(256)] }

\* The objects write is called on: what the device holds and neighbours
\* differing in one block, other configurations, the extremes, objects
\* freqplan rejects, and AssignedModels.
WriteModels ==
    { ConfigDev,
      [ConfigDev EXCEPT !.level = Some(1)],
      [ConfigDev EXCEPT !.out1 = Some(0)],
      [ConfigDev EXCEPT !.bw = Some(9)],
      ConfigA, ConfigMax, ConfigMin,
      InitModel,
      [ConfigA EXCEPT !.skew = Some(99)],
      [ConfigA EXCEPT !.n3 = None] }
    \cup AssignedModels

\* The device calls of write at which the transport may raise.
Fails == {"none", "status", "read", "pll", "level", "output"}

MaxWrites == 2

-----------------------------------------------------------------------------
(* Specifications *)

InitHistory ==
    /\ op = "init"
    /\ args = NoArgs
    /\ pre = InitModel
    /\ ok = TRUE
    /\ errdict = EmptyDict
    /\ errflag = FALSE
    /\ freq = NoPlan
    /\ config = NoConfig
    /\ calls = 0
    /\ reads = 0
    /\ sent = << >>
    /\ exc = ""
    /\ devcalls = << >>

\* A session: a fresh object bound to a device, then any calls.
Init ==
    /\ m = InitModel
    /\ dev \in DevImages
    /\ InitHistory

Next ==
    \/ calls < MaxCalls /\ \E kwargs \in SessionKwargs : Update(kwargs)
    \/ calls < MaxCalls /\ \E update \in BOOLEAN : ReadConfig(update)
    \/ calls < MaxCalls /\ \E modify \in BOOLEAN, ignore_freq_limits \in BOOLEAN :
          FreqPlan(modify, ignore_freq_limits)
    \/ calls < MaxCalls /\ \E ignore_freq_limits \in BOOLEAN : AsDict(ignore_freq_limits)

Spec == Init /\ [][Next]_vars

\* One update call on each object of UpdateModels, with every dictionary of
\* at most MaxArgs boundary values.
InitUpdate ==
    /\ m \in UpdateModels
    /\ dev = DevValid
    /\ InitHistory

NextUpdate == op = "init" /\ \E kwargs \in BoundaryKwargs : Update(kwargs)

SpecUpdate == InitUpdate /\ [][NextUpdate]_vars

\* One freqplan or asdict call on each object of PlanModels and PartialModels.
InitPlan ==
    /\ m \in PlanModels \cup PartialModels
    /\ dev = DevValid
    /\ InitHistory

NextPlan ==
    \/ op = "init" /\ \E modify \in BOOLEAN, ignore_freq_limits \in BOOLEAN :
          FreqPlan(modify, ignore_freq_limits)
    \/ op = "init" /\ \E ignore_freq_limits \in BOOLEAN : AsDict(ignore_freq_limits)

SpecPlan == InitPlan /\ [][NextPlan]_vars

\* Up to MaxWrites write calls on each object of WriteModels, bound to a
\* device that holds any of DevImages.
InitWrite ==
    /\ m \in WriteModels
    /\ dev \in DevImages
    /\ InitHistory

NextWrite ==
    calls < MaxWrites /\ \E overwrite \in BOOLEAN, ignore_freq_limits \in BOOLEAN,
                             fail \in Fails :
        Write(overwrite, ignore_freq_limits, fail)

SpecWrite == InitWrite /\ [][NextWrite]_vars

-----------------------------------------------------------------------------
(* The specification's static range table (spec 4.2), as the claims state  *)
(* it: the values update is to accept per attribute.                       *)

TableAccepts(f, v) ==
    CASE f = "level"  -> v >= 0 /\ v <= 3
      [] f = "fin"    -> v >= 10000 /\ v <= 16000000
      [] f = "n3"     -> v >= 1 /\ v <= 524288
      [] f \in {"n2_hs", "n1_hs"} -> v >= 4 /\ v <= 11
      [] f = "n2_ls"  -> v >= 2 /\ v <= 1048576 /\ v % 2 = 0
      [] f \in {"nc1_ls", "nc2_ls"} -> v >= 1 /\ v <= 1048576 /\ (v = 1 \/ v % 2 = 0)
      [] f = "skew"   -> v >= 0 /\ v <= 255
      [] f = "bw"     -> v >= 0 /\ v <= 15
      [] OTHER        -> TRUE

\* The supplied attributes the table rejects.
TableRejected(kwargs) ==
    {f \in DOMAIN kwargs : kwargs[f] # None /\ ~TableAccepts(f, Val(kwargs[f]))}

\* The call supplies the bypass value 1 for a per-output divider.
SuppliesBypass(kwargs) ==
    \E f \in {"nc1_ls", "nc2_ls"} : Arg(kwargs, f) = Some(1)

\* A * d = c * B ... as unbounded ints: the Fraction fr equals n / d.
FracIs(fr, n, d) == BigMul(fr.num, d) = BigMul(n, fr.den)

-----------------------------------------------------------------------------
(* Claims *)

\* C1: an update call that supplies at least one attribute the static table
\* rejects (or a level outside 0..3) fails, and all twelve attributes keep
\* their values, whatever else the call supplies.
C1_UpdateAllOrNothing ==
    (op = "update" /\ TableRejected(args.kwargs) # {}) => (~ok /\ m = pre)

\* C1 witness: a failed call that also supplied an accepted value differing
\* from the stored one.
C1_Witness ==
    /\ op = "update"
    /\ ~ok
    /\ TableRejected(args.kwargs) # {}
    /\ \E g \in DOMAIN args.kwargs \ {"out1", "out2"} :
          /\ args.kwargs[g] # None
          /\ g \notin DOMAIN errdict
          /\ args.kwargs[g] # pre[g]

\* C2 (as claimed): update(nc1_ls = 1) and update(nc2_ls = 1) succeed and
\* store 1.
C2_BypassAccepted ==
    \A f \in {"nc1_ls", "nc2_ls"} :
        (op = "update" /\ DOMAIN args.kwargs = {f} /\ args.kwargs[f] = Some(1))
            => (ok /\ m[f] = Some(1))

\* C3: an update call that does not supply the bypass value 1 succeeds iff
\* every supplied integer is one the static table accepts (odd N2_LS,
\* including 1, and odd NC >= 3 are rejected).
C3_UpdateDecidesByTable ==
    (op = "update" /\ ~SuppliesBypass(args.kwargs))
        => (ok <=> TableRejected(args.kwargs) = {})

\* C3 witness: update(n2_ls = 1) was rejected.
C3_Witness ==
    /\ op = "update"
    /\ DOMAIN args.kwargs = {"n2_ls"}
    /\ args.kwargs["n2_ls"] = Some(1)
    /\ ~ok

\* C4 (as claimed): the error map of a failing update that supplies a
\* rejected attribute has an entry for exactly the supplied attributes the
\* table rejects.
C4_ErrorSetExact ==
    (op = "update" /\ ~ok /\ TableRejected(args.kwargs) # {})
        => DOMAIN errdict = TableRejected(args.kwargs)

\* C5: a successful update stores exactly the supplied non-None values
\* (out1, out2 as booleans) and leaves the rest; no call makes a defined
\* attribute undefined; out1, out2, level, skew and bw are always defined.
C5_UpdateFrame ==
    /\ (op = "update" /\ ok) =>
          \A f \in Fields :
              m[f] = IF Arg(args.kwargs, f) = None THEN pre[f]
                     ELSE IF f \in {"out1", "out2"}
                          THEN (IF Val(args.kwargs[f]) = 0 THEN Some(0) ELSE Some(1))
                          ELSE args.kwargs[f]
    /\ \A f \in Fields : pre[f] # None => m[f] # None
    /\ \A f \in {"out1", "out2", "level", "skew", "bw"} : m[f] # None

\* C5 witness: a successful update changed one attribute while another,
\* defined one was supplied as None.
C5_Witness ==
    /\ op = "update"
    /\ ok
    /\ m # pre
    /\ \E f \in DOMAIN args.kwargs : args.kwargs[f] = None /\ pre[f] # None

\* C6: in every state of a session each static attribute is undefined or a
\* value the static table accepts, and level is in 0..3.
C6_StaticInvariant ==
    /\ \A f \in StaticAttrs : m[f] = None \/ TableAccepts(f, Val(m[f]))
    /\ m.level # None /\ Val(m.level) \in 0..3

\* C6 witness: freqplan(modify = True) has written a divider after calls
\* that were rejected or accepted.
C6_Witness ==
    /\ op = "freqplan"
    /\ args.modify
    /\ pre.nc1_ls = None
    /\ m.nc1_ls # None
    /\ m.fin # None

FullyDefined(self) == \A f \in Fields : self[f] # None

\* C7: on a fully defined object freqplan returns exactly f3 = fin/n3,
\* fosc = fin*n2_hs*n2_ls/n3, fout1 = fosc/(n1_hs*nc1_ls) and
\* fout2 = fosc/(n1_hs*nc2_ls); the specification's example gives
\* fosc = 40960000000 and fout1 = 10240000000.
C7_ExactFrequencies ==
    (op = "freqplan" /\ FullyDefined(m)) =>
        LET fin  == BigOf(Val(m.fin))
            n3   == BigOf(Val(m.n3))
            n2   == BigMul(BigOf(Val(m.n2_hs)), BigOf(Val(m.n2_ls)))
            d1   == BigMul(n3, BigMul(BigOf(Val(m.n1_hs)), BigOf(Val(m.nc1_ls))))
            d2   == BigMul(n3, BigMul(BigOf(Val(m.n1_hs)), BigOf(Val(m.nc2_ls))))
        IN  /\ \A k \in {"f3", "fosc", "fout1", "fout2"} : freq[k] # None
            /\ FracIs(Val(freq.f3), fin, n3)
            /\ FracIs(Val(freq.fosc), BigMul(fin, n2), n3)
            /\ FracIs(Val(freq.fout1), BigMul(fin, n2), d1)
            /\ FracIs(Val(freq.fout2), BigMul(fin, n2), d2)
            /\ (/\ m.fin = Some(10000000) /\ m.n3 = Some(1) /\ m.n2_hs = Some(4)
                /\ m.n2_ls = Some(1024) /\ m.n1_hs = Some(4) /\ m.nc1_ls = Some(1))
               => /\ Val(freq.fosc) = [num |-> BigDec(<<4, 0, 9, 6, 0, 0, 0, 0, 0, 0, 0>>),
                                       den |-> BigOf(1)]
                  /\ Val(freq.fout1) = [num |-> BigDec(<<1, 0, 2, 4, 0, 0, 0, 0, 0, 0, 0>>),
                                        den |-> BigOf(1)]

\* C7 witness: freqplan has evaluated the specification's example.
C7_Witness ==
    /\ op = "freqplan"
    /\ m.fin = Some(10000000) /\ m.n3 = Some(1) /\ m.n2_hs = Some(4)
    /\ m.n2_ls = Some(1024) /\ m.n1_hs = Some(4) /\ m.nc1_ls = Some(1)
    /\ freq.fout1 = Some([num |-> BigDec(<<1, 0, 2, 4, 0, 0, 0, 0, 0, 0, 0>>),
                          den |-> BigOf(1)])

\* C8: freqplan returns phaseres = n1_hs/fosc, phase = skew*phaseres,
\* phaseangleres = 1/nc2_ls and phaseangle = (skew mod nc2_ls)/nc2_ls, and
\* phaseangle lies in [0, 1); skew = 7, nc2_ls = 5 gives 2/5.
C8_PhaseValues ==
    (op = "freqplan" /\ FullyDefined(m)) =>
        LET fosc  == Val(freq.fosc)
            skew  == Val(m.skew)
            nc2   == Val(m.nc2_ls)
            pres  == Val(freq.phaseres)
            pa    == Val(freq.phaseangle)
        IN  /\ \A k \in {"phaseres", "phase", "phaseangle", "phaseangleres"} : freq[k] # None
            /\ FracIs(pres, BigMul(BigOf(Val(m.n1_hs)), fosc.den), fosc.num)
            /\ FracIs(Val(freq.phase), BigMul(BigOf(skew), pres.num), pres.den)
            /\ FracIs(Val(freq.phaseangleres), BigOf(1), BigOf(nc2))
            /\ FracIs(pa, BigOf(skew % nc2), BigOf(nc2))
            /\ BigLess(pa.num, pa.den)
            /\ (skew = 7 /\ nc2 = 5) => pa = [num |-> BigOf(2), den |-> BigOf(5)]

\* C8 witness: freqplan has wrapped skew 7 on NC2_LS 5 to 2/5.
C8_Witness ==
    /\ op = "freqplan"
    /\ m.skew = Some(7)
    /\ m.nc2_ls = Some(5)
    /\ freq.phaseangle = Some([num |-> BigOf(2), den |-> BigOf(5)])

\* C9 (as claimed): without ignore_freq_limits, f3 gets a range violation
\* iff f3 < 2000 or f3 > 2000000.
C9_F3Range ==
    (op = "freqplan" /\ ~args.ignore_freq_limits /\ freq.f3 # None) =>
        LET f3 == Val(freq.f3)
        IN  (errdict.f3 # None) <=>
                \/ BigLess(f3.num, BigMul(BigOf(2000), f3.den))
                \/ BigLess(BigMul(BigOf(2000000), f3.den), f3.num)

\* n < lo or n > hi for the Fraction fr and unbounded ints lo, hi.
Outside(fr, lo, hi) ==
    \/ BigLess(fr.num, BigMul(lo, fr.den))
    \/ BigLess(BigMul(hi, fr.den), fr.num)

\* C10: without ignore_freq_limits, fosc gets a range violation iff
\* fosc < 4850000000 or fosc > 5670000000 and each output iff fout < 450 or
\* fout > 808000000, compared as exact rationals: a value on a bound is
\* accepted, a value a fraction outside it is rejected.
C10_FoscFoutRange ==
    (op = "freqplan" /\ ~args.ignore_freq_limits /\ FullyDefined(m)) =>
        /\ (errdict.fosc # None) <=>
              Outside(Val(freq.fosc), BigDec(<<4, 8, 5, 0, 0, 0, 0, 0, 0, 0>>),
                                      BigDec(<<5, 6, 7, 0, 0, 0, 0, 0, 0, 0>>))
        /\ \A k \in {"fout1", "fout2"} :
              (errdict[k] # None) <=> Outside(Val(freq[k]), BigOf(450), BigOf(808000000))

\* C10 witness: fosc = 5.67 GHz + 8/9 Hz, a fraction above the bound, was
\* rejected.
C10_Witness ==
    /\ op = "freqplan"
    /\ ~args.ignore_freq_limits
    /\ m.fin = Some(6721549) /\ m.n3 = Some(9) /\ m.n2_hs = Some(4) /\ m.n2_ls = Some(1898)
    /\ Val(freq.fosc).den = BigOf(9)
    /\ errdict.fosc # None

\* C11: whenever skew and nc2_ls are defined, freqplan reports a skew error
\* iff skew > max(nc2_ls - 2, 0), with and without ignore_freq_limits.
C11_SkewCeiling ==
    (op = "freqplan" /\ m.skew # None /\ m.nc2_ls # None) =>
        LET a       == Val(m.nc2_ls) - 2
            ceiling == IF a > 0 THEN a ELSE 0
        IN  (errdict.skew # None) <=> (Val(m.skew) > ceiling)

\* C11 witness: with nc2_ls = 5 and ignore_freq_limits set, skew = 4 was
\* rejected.
C11_Witness ==
    /\ op = "freqplan"
    /\ args.ignore_freq_limits
    /\ m.nc2_ls = Some(5)
    /\ m.skew = Some(4)
    /\ errdict.skew # None

\* The attributes the formula of each plan entry uses.
Uses(k) ==
    CASE k = "f3"            -> {"fin", "n3"}
      [] k = "fosc"          -> {"fin", "n3", "n2_hs", "n2_ls"}
      [] k = "fout1"         -> {"fin", "n3", "n2_hs", "n2_ls", "n1_hs", "nc1_ls"}
      [] k = "fout2"         -> {"fin", "n3", "n2_hs", "n2_ls", "n1_hs", "nc2_ls"}
      [] k = "phaseres"      -> {"fin", "n3", "n2_hs", "n2_ls", "n1_hs"}
      [] k = "phase"         -> {"fin", "n3", "n2_hs", "n2_ls", "n1_hs", "skew"}
      [] k = "phaseangle"    -> {"nc2_ls", "skew"}
      [] k = "phaseangleres" -> {"nc2_ls"}

\* C12: each plan entry is undefined iff an attribute its formula uses is
\* undefined; every undefined static attribute and every undefined checked
\* frequency has an 'undefined' message, whatever ignore_freq_limits is;
\* and freqplan returns.
C12_UndefinedPropagates ==
    (op = "freqplan") =>
        /\ ok
        /\ DOMAIN freq = PlanKeys
        /\ \A k \in PlanKeys : (freq[k] = None) <=> (\E f \in Uses(k) : m[f] = None)
        /\ \A a \in StaticAttrs : m[a] = None => errdict[a] = Some("undefined")
        /\ \A k \in FreqAttrs : freq[k] = None => errdict[k] = Some("undefined")

\* C12 witness: with ignore_freq_limits set and n3 alone undefined, f3 and
\* fout1 were reported undefined while phaseangle was computed.
C12_Witness ==
    /\ op = "freqplan"
    /\ args.ignore_freq_limits
    /\ m.n3 = None
    /\ \A f \in StaticAttrs \ {"n3"} : m[f] # None
    /\ errdict.f3 = Some("undefined")
    /\ errdict.fout1 = Some("undefined")
    /\ freq.phaseangle # None

\* skew is defined and within its ceiling max(nc2_ls - 2, 0).
SkewWithinCeiling(self) ==
    /\ self.skew # None
    /\ self.nc2_ls # None
    /\ Val(self.skew) <= (IF Val(self.nc2_ls) - 2 > 0 THEN Val(self.nc2_ls) - 2 ELSE 0)

\* C13: the report made with ignore_freq_limits differs from the report of
\* the same object without it only in range violations of f3, fosc, fout1,
\* fout2, which it drops; a fully defined object whose skew is within its
\* ceiling then has no error at all.
C13_IgnoreOnlyRanges ==
    (op = "freqplan" /\ args.ignore_freq_limits) =>
        LET strict == PlanErrdict(m, freq, FALSE)
        IN  /\ \A k \in DOMAIN errdict : errdict[k] # None => strict[k] = errdict[k]
            /\ \A k \in DOMAIN errdict :
                  errdict[k] # strict[k] =>
                      /\ k \in FreqAttrs
                      /\ strict[k] = Some("out of range")
                      /\ errdict[k] = None
            /\ (FullyDefined(m) /\ SkewWithinCeiling(m)) => ~errflag

\* C13 witness: with the flag set, the object with fout1 = 10 240 000 000
\* was reported free of errors.
C13_Witness ==
    /\ op = "freqplan"
    /\ args.ignore_freq_limits
    /\ freq.fout1 # None
    /\ FracIs(Val(freq.fout1), BigDec(<<1, 0, 2, 4, 0, 0, 0, 0, 0, 0, 0>>), BigOf(1))
    /\ PlanErrdict(m, freq, FALSE).fout1 = Some("out of range")
    /\ ~errflag

\* C14: when freqplan, with the caller's ignore_freq_limits, reports an
\* error, write raises with exactly the entries that have a message, reads
\* no configuration and sends no report; the flag it tests is true iff an
\* entry has a message.
C14_WriteRefusesInvalid ==
    (op = "write") =>
        LET errs == PlanErrdict(pre, Plan(pre), args.ignore_freq_limits)
            bad  == {k \in DOMAIN errs : errs[k] # None}
        IN  /\ errflag <=> (bad # {})
            /\ (bad # {}) =>
                  /\ ~ok
                  /\ exc = "GPSDOConfigurationException"
                  /\ DOMAIN errdict = bad
                  /\ \A k \in bad : errdict[k] = Val(errs[k])
                  /\ reads = 0
                  /\ sent = << >>

\* C14 witness: write with overwrite set on an object whose only error is
\* its skew raised with that one entry and sent nothing.
C14_Witness ==
    /\ op = "write"
    /\ args.overwrite
    /\ ~ok
    /\ DOMAIN errdict = {"skew"}
    /\ reads = 0
    /\ sent = << >>

\* C15 (as claimed): asdict fails on an object with an undefined attribute
\* unless the caller opted in with ignore_freq_limits, and then returns the
\* attributes of the partially defined object.
C15_SnapshotTolerance ==
    (op = "asdict" /\ ~FullyDefined(pre)) =>
        IF args.ignore_freq_limits THEN ok /\ config = pre ELSE ~ok

\* Every attribute is defined and is a value the static table accepts.
TableValid(self) ==
    \A f \in Fields : self[f] # None /\ TableAccepts(f, Val(self[f]))

\* The report with command selector c among the reports sent.
ReportsOf(c) == {i \in 1..Len(sent) : sent[i][1] = c}

\* The read buffer built from the three reports of a write: byte 0 from
\* the OUTPUT report, byte 1 from the LEVEL report, bytes 2..20 the bytes
\* 1..19 of the PLL report.
ReadBufferOf(pll, level, output) == <<output[2], level[2]>> \o SubSeq(pll, 2, 20)

\* C16: for a fully defined object the table accepts, decoding the read
\* buffer built from the three reports write sends gives the object's
\* twelve attribute values.
C16_CodecRoundTrip ==
    (op = "write" /\ ok /\ args.overwrite /\ TableValid(m)) =>
        /\ Len(sent) = 3
        /\ sent[1][1] = COMMAND_PLL
        /\ sent[2][1] = COMMAND_LEVEL
        /\ sent[3][1] = COMMAND_OUTPUT
        /\ DecodeConfig(ReadBufferOf(sent[1], sent[2], sent[3])) = m

\* C16 witness: the object with every attribute at its largest value was
\* written in full.
C16_Witness ==
    /\ op = "write"
    /\ ok
    /\ m = ConfigMax
    /\ Len(sent) = 3
    /\ DecodeConfig(ReadBufferOf(sent[1], sent[2], sent[3])) = ConfigMax

\* C17: every report write sends for an object the table accepts has 60
\* bytes, starts with the selector of its block, holds the attributes at
\* the stated bytes with the stated offsets, and is zero elsewhere.
C17_ReportLayout ==
    (op = "write" /\ TableValid(m)) =>
        /\ Cardinality({COMMAND_PLL, COMMAND_LEVEL, COMMAND_OUTPUT}) = 3
        /\ \A i \in 1..Len(sent) :
              LET b == sent[i]
              IN  /\ Len(b) = 60
                  /\ \A j \in 0..59 : Byte(b, j) \in 0..255
                  /\ Byte(b, 0) \in {COMMAND_PLL, COMMAND_LEVEL, COMMAND_OUTPUT}
                  /\ Byte(b, 0) = COMMAND_PLL =>
                        /\ Byte(b, 1) + 256 * Byte(b, 2) + 65536 * Byte(b, 3) = Val(m.fin)
                        /\ Byte(b, 4) + 256 * Byte(b, 5) + 65536 * Byte(b, 6) = Val(m.n3) - 1
                        /\ Byte(b, 7) = Val(m.n2_hs) - 4
                        /\ Byte(b, 8) + 256 * Byte(b, 9) + 65536 * Byte(b, 10) = Val(m.n2_ls) - 1
                        /\ Byte(b, 11) = Val(m.n1_hs) - 4
                        /\ Byte(b, 12) + 256 * Byte(b, 13) + 65536 * Byte(b, 14) = Val(m.nc1_ls) - 1
                        /\ Byte(b, 15) + 256 * Byte(b, 16) + 65536 * Byte(b, 17) = Val(m.nc2_ls) - 1
                        /\ Byte(b, 18) = Val(m.skew)
                        /\ Byte(b, 19) = Val(m.bw)
                        /\ \A j \in 20..59 : Byte(b, j) = 0
                  /\ Byte(b, 0) = COMMAND_LEVEL =>
                        /\ Byte(b, 1) = Val(m.level)
                        /\ \A j \in 2..59 : Byte(b, j) = 0
                  /\ Byte(b, 0) = COMMAND_OUTPUT =>
                        /\ Byte(b, 1) % 2 = Val(m.out1)
                        /\ (Byte(b, 1) \div 2) = Val(m.out2)
                        /\ \A j \in 2..59 : Byte(b, j) = 0

\* C17 witness: without overwrite, the three reports of ConfigA were sent
\* to a device that held another configuration.
C17_Witness ==
    /\ op = "write"
    /\ ~args.overwrite
    /\ m = ConfigA
    /\ Len(sent) = 3
    /\ sent[1][1] = COMMAND_PLL

\* An offset-adjusted PLL value does not fit its width: 24 bits for fin,
\* n3, n2_ls, nc1_ls, nc2_ls, 8 bits for n2_hs, n1_hs, skew, bw.
PllOverflows(self) ==
    \/ \E v \in {Val(self.fin), Val(self.n3) - 1, Val(self.n2_ls) - 1,
                  Val(self.nc1_ls) - 1, Val(self.nc2_ls) - 1} : v < 0 \/ v > 16777215
    \/ \E v \in {Val(self.n2_hs) - 4, Val(self.n1_hs) - 4, Val(self.skew), Val(self.bw)} :
          v < 0 \/ v > 255

\* C18 (as claimed): when write gets to build the PLL report of an object
\* with a value that does not fit its width, or the LEVEL report of one
\* whose level does not fit a byte, it fails and does not send that report.
C18_EncodeRejectsOverflow ==
    (op = "write" /\ ~errflag /\ args.overwrite /\ args.fail = "none") =>
        /\ PllOverflows(m) => (~ok /\ ReportsOf(COMMAND_PLL) = {})
        /\ (~PllOverflows(m) /\ (Val(m.level) < 0 \/ Val(m.level) > 255)) =>
              (~ok /\ ReportsOf(COMMAND_LEVEL) = {})

\* C19: a write that completes on an object the table accepts has sent the
\* PLL report iff overwrite or a PLL attribute differs from the device's,
\* the LEVEL report iff overwrite or level differs, the OUTPUT report iff
\* overwrite or out1 or out2 differs; with overwrite all three.
C19_DiffPolicy ==
    (op = "write" /\ ok /\ TableValid(m)) =>
        /\ (ReportsOf(COMMAND_PLL) # {}) <=>
              (args.overwrite \/ \E f \in StaticAttrs : m[f] # config[f])
        /\ (ReportsOf(COMMAND_LEVEL) # {}) <=>
              (args.overwrite \/ m.level # config.level)
        /\ (ReportsOf(COMMAND_OUTPUT) # {}) <=>
              (args.overwrite \/ m.out1 # config.out1 \/ m.out2 # config.out2)
        /\ \A c \in {COMMAND_PLL, COMMAND_LEVEL, COMMAND_OUTPUT} :
              Cardinality(ReportsOf(c)) <= 1
        /\ args.overwrite => Len(sent) = 3

\* C19 witness: the object differed from the device in level only, and the
\* LEVEL report alone was sent.
C19_Witness ==
    /\ op = "write"
    /\ ok
    /\ ~args.overwrite
    /\ m = [ConfigDev EXCEPT !.level = Some(1)]
    /\ Len(sent) = 1
    /\ sent[1][1] = COMMAND_LEVEL

\* C20: after a write that completed on an object the table accepts, the
\* device holds the object's twelve values, and the next write without
\* overwrite sends nothing.
C20_WriteIdempotent ==
    [][(op = "write" /\ ok /\ TableValid(m) /\ op' = "write" /\ ~args'.overwrite)
          => (DecodeConfig(dev) = m /\ sent' = << >>)]_vars

\* C20 witness: a first write brought the device to ConfigMax, which none
\* of the initial images holds, and the second write, made without
\* overwrite, completed and sent nothing.
C20_Witness ==
    /\ op = "write"
    /\ calls = 2
    /\ ok
    /\ ~args.overwrite
    /\ m = ConfigMax
    /\ DecodeConfig(dev) = ConfigMax
    /\ sent = << >>

\* The place of a device call in the order read, configuration read, PLL,
\* LEVEL, OUTPUT.
Rank(call) ==
    CASE call = "read"               -> 1
      [] call = "get_feature_report" -> 2
      [] call = "pll"                -> 3
      [] call = "level"              -> 4
      [] call = "output"             -> 5

\* The selector of the report a send call carries.
SelectorOf(call) ==
    CASE call = "pll"    -> COMMAND_PLL
      [] call = "level"  -> COMMAND_LEVEL
      [] call = "output" -> COMMAND_OUTPUT

\* The device call at which the transport was made to raise.
FailedCall(fail) ==
    CASE fail = "status" -> "read"
      [] fail = "read"   -> "get_feature_report"
      [] OTHER           -> fail

\* The device holds the report: its bytes are where read_config reads them.
Applied(image, report) ==
    CASE report[1] = COMMAND_PLL    -> SubSeq(image, 3, 21) = SubSeq(report, 2, 20)
      [] report[1] = COMMAND_LEVEL  -> image[2] = report[2]
      [] report[1] = COMMAND_OUTPUT -> image[1] = report[2]

\* C21: the device calls of one write are made in the order status read,
\* configuration read, PLL, LEVEL, OUTPUT, each at most once; when the
\* transport raises, the raising call is the last one made, the reports of
\* the sends before it were delivered and are held by the device, and no
\* later one is sent.
C21_WriteOrder ==
    (op = "write") =>
        LET n     == Len(devcalls)
            sends == SelectSeq(devcalls, LAMBDA c : Rank(c) >= 3)
            done  == IF exc = "HIDException" /\ Rank(FailedCall(args.fail)) >= 3
                     THEN SubSeq(sends, 1, Len(sends) - 1) ELSE sends
        IN  /\ \A i, j \in 1..n : i < j => Rank(devcalls[i]) < Rank(devcalls[j])
            /\ n > 0 => devcalls[1] = "read"
            /\ (exc = "HIDException") <=>
                  (n > 0 /\ args.fail # "none" /\ devcalls[n] = FailedCall(args.fail))
            /\ exc = "HIDException" => ~ok
            /\ Len(sent) = Len(done)
            /\ \A i \in 1..Len(sent) :
                  /\ sent[i][1] = SelectorOf(done[i])
                  /\ Applied(dev, sent[i])

\* C21 witness: the transport raised at the LEVEL report; the PLL report
\* had been sent and the device holds its n3, which no initial image has,
\* but not the level, and no OUTPUT report followed although overwrite was
\* set.
C21_Witness ==
    /\ op = "write"
    /\ args.overwrite
    /\ args.fail = "level"
    /\ exc = "HIDException"
    /\ devcalls = <<"read", "get_feature_report", "pll", "level">>
    /\ Len(sent) = 1
    /\ sent[1][1] = COMMAND_PLL
    /\ m = ConfigA
    /\ DecodeConfig(dev).n3 = ConfigA.n3
    /\ DecodeConfig(dev).level # ConfigA.level

\* C22: a freqplan call without modify changes no attribute; a freqplan
\* call that follows another on equal attribute values with the same
\* ignore_freq_limits returns the same plan, report and flag; and the plan
\* of every call, whatever preceded it, is the one of the attribute values
\* the object has at that call.
C22_EvaluationPure ==
    [][(op' = "freqplan") =>
          /\ ~args'.modify => m' = m
          /\ (op = "freqplan" /\ m' = m
                /\ args'.ignore_freq_limits = args.ignore_freq_limits) =>
                (freq' = freq /\ errdict' = errdict /\ errflag' = errflag /\ ok' = ok)
          /\ \A k \in PlanKeys : (freq'[k] = None) <=> (\E f \in Uses(k) : m'[f] = None)
          /\ freq'.f3 # None =>
                FracIs(Val(freq'.f3), BigOf(Val(m'.fin)), BigOf(Val(m'.n3)))
          /\ freq'.fosc # None =>
                FracIs(Val(freq'.fosc),
                       BigMul(BigOf(Val(m'.fin)), BigOf(Val(m'.n2_hs) * Val(m'.n2_ls))),
                       BigOf(Val(m'.n3)))
          /\ freq'.phaseangleres # None =>
                FracIs(Val(freq'.phaseangleres), BigOf(1), BigOf(Val(m'.nc2_ls)))]_vars

\* C22 witness: after update(fin = 10000) and update(n3 = 5), freqplan
\* without modify returned f3 = 2000 and left the attributes alone.
C22_Witness ==
    /\ op = "freqplan"
    /\ calls = 3
    /\ ~args.modify
    /\ m = pre
    /\ m.fin = Some(10000)
    /\ m.n3 = Some(5)
    /\ freq.f3 # None
    /\ FracIs(Val(freq.f3), BigOf(2000), BigOf(1))

\* C23: in every state a session reaches, every defined divider n3, n1_hs,
\* nc1_ls, nc2_ls is at least 1, no call has raised ZeroDivisionError, and
\* a defined fosc is not zero.
C23_NoDivisionByZero ==
    /\ \A f \in {"n3", "n1_hs", "nc1_ls", "nc2_ls"} : m[f] # None => Val(m[f]) >= 1
    /\ ~DividesByZero(m)
    /\ exc # "ZeroDivisionError"
    /\ (op = "freqplan") =>
          /\ ok
          /\ freq.fosc # None => BigLess(BigOf(0), Val(freq.fosc).num)

\* C23 witness: freqplan completed on a fully defined object, with every
\* quotient computed.
C23_Witness ==
    /\ op = "freqplan"
    /\ ok
    /\ FullyDefined(m)
    /\ \A k \in PlanKeys : freq[k] # None

\* C24: when asdict succeeds, update with the returned dictionary succeeds
\* on a fresh object and gives it the twelve attribute values of the
\* original, and on the original it changes nothing.
C24_RestoreSnapshot ==
    (op = "asdict" /\ ok) =>
        /\ DOMAIN config = Fields
        /\ DOMAIN UpdateErrdict(config) = {}
        /\ UpdateFields(InitModel, config) = m
        /\ UpdateFields(m, config) = m

\* C24 witness: asdict succeeded on an object that differs from a fresh one
\* in every attribute.
C24_Witness ==
    /\ op = "asdict"
    /\ ok
    /\ \A f \in Fields : m[f] # InitModel[f]
    /\ UpdateFields(InitModel, config) = m

\* The divider of the other output.
OtherDivider(d) == IF d = "nc1_ls" THEN "nc2_ls" ELSE "nc1_ls"

\* The enable attribute of the output a divider belongs to.
EnableOf(d) == IF d = "nc1_ls" THEN "out1" ELSE "out2"

\* An output is enabled in the object self.
Enabled(self, d) == Val(self[EnableOf(d)]) # 0

\* C25: freqplan with modify true changes no attribute other than nc1_ls
\* and nc2_ls, no defined divider and no divider of an enabled output; an
\* undefined divider of a disabled output becomes the other divider when
\* the other output is enabled, and 5670 when both outputs are disabled.
C25_ModifyFillsUnused ==
    (op = "freqplan" /\ args.modify) =>
        /\ \A f \in Fields \ {"nc1_ls", "nc2_ls"} : m[f] = pre[f]
        /\ \A d \in {"nc1_ls", "nc2_ls"} :
              /\ pre[d] # None => m[d] = pre[d]
              /\ Enabled(pre, d) => m[d] = pre[d]
              /\ (pre[d] = None /\ ~Enabled(pre, d) /\ Enabled(pre, OtherDivider(d)))
                    => m[d] = pre[OtherDivider(d)]
              /\ (pre[d] = None /\ ~Enabled(pre, d) /\ ~Enabled(pre, OtherDivider(d)))
                    => m[d] = Some(5670)

\* C25 witness: output 1 disabled with nc1_ls undefined, output 2 enabled
\* with a divider, and freqplan with modify true has copied it.
C25_Witness ==
    /\ op = "freqplan"
    /\ args.modify
    /\ pre.nc1_ls = None
    /\ ~Enabled(pre, "nc1_ls")
    /\ Enabled(pre, "nc2_ls")
    /\ pre.nc2_ls # None
    /\ m.nc1_ls = pre.nc2_ls
    /\ m.nc2_ls = pre.nc2_ls

=============================================================================
